---- MODULE Spec2Model ----
(***************************************************************************)
(* Model of the DNP3 list generator (cwDnp3).  The repository holds two    *)
(* iterations of the same program:                                         *)
(*   "v22"  src/main.go            (CLI v2.2, fixed substring heuristics)  *)
(*   "v32"  src/unnamed/part_000   (CLI v3.2, regex rules from the YAML)   *)
(* Both are modelled; the variable `version` says which one is running.    *)
(*                                                                         *)
(* Text is modelled as sequences of one-character strings, so that         *)
(* trimming, prefix tests, the extraction regex and substring tests are    *)
(* computed the way the code computes them.  A configured spare name and   *)
(* the fixed header literals are opaque to the program (it only copies     *)
(* them), so each is kept as one multi-character element.                  *)
(***************************************************************************)
EXTENDS Integers, Sequences, FiniteSets, TLC

VARIABLES
    version,       \* which iteration of the program runs
    configYaml,    \* content of config.yaml (environment, never written)
    GlobalConfig,  \* the decoded configuration
    pc,            \* position of main()
    input,         \* the lines of the .SIG file the scanner has delivered
    line, matches, \* locals of the last loop iteration of processSigFile
    evals,         \* calls of regexp.MatchString in the last iteration
    ListAI, ListAO, ListDI, ListDO,
    log,           \* events written through package log by the steps modelled
    out            \* lines of __lists.ini

vars == <<version, configYaml, GlobalConfig, pc, input, line, matches, evals,
          ListAI, ListAO, ListDI, ListDO, log, out>>

lists == <<ListAI, ListAO, ListDI, ListDO>>

\* Number of lines of the .SIG file the scanner may deliver in one run.
MaxLines == 2

Versions == {"v22", "v32"}

-----------------------------------------------------------------------------
(* Character classes of Go's regexp (RE2) and of strings.TrimSpace.        *)

Upper == {"A","B","C","D","E","F","G","H","I","J","K","L","M",
          "N","O","P","Q","R","S","T","U","V","W","X","Y","Z"}
Lower == {"a","b","c","d","e","f","g","h","i","j","k","l","m",
          "n","o","p","q","r","s","t","u","v","w","x","y","z"}
Digit == {"0","1","2","3","4","5","6","7","8","9"}
\* \w (and the redundant \d and _ of the class [\w\d_])
WordChar == Upper \cup Lower \cup Digit \cup {"_"}
\* \s of RE2 and the ASCII white space strings.TrimSpace removes
Space == {" ", "\t", "\r", "\f"}

sSIG  == <<"S","I","G","=">>
sGV   == <<"@","G","V",".">>
sTYPE == <<"T","Y","P","E","=">>

-----------------------------------------------------------------------------
(* String helpers, computed on characters.                                 *)

\* s[i..] starts with the literal lit
LitAt(s, i, lit) ==
    /\ i >= 1
    /\ i + Len(lit) - 1 <= Len(s)
    /\ \A k \in 1..Len(lit) : s[i + k - 1] = lit[k]

\* strings.HasPrefix
HasPrefix(s, prefix) == LitAt(s, 1, prefix)

\* strings.Contains
Contains(s, sub) == \E i \in 1..(Len(s) + 1) : LitAt(s, i, sub)

\* length of the longest run of characters of class cls starting at s[i]
RECURSIVE RunLen(_, _, _)
RunLen(s, i, cls) ==
    IF i <= Len(s) /\ s[i] \in cls THEN 1 + RunLen(s, i + 1, cls) ELSE 0

\* strings.TrimSpace
TrimSpace(s) ==
    LET lead  == RunLen(s, 1, Space)
        rest  == SubSeq(s, lead + 1, Len(s))
        ends  == {j \in 0..Len(rest) : \A k \in (j + 1)..Len(rest) : rest[k] \in Space}
        keep  == CHOOSE j \in ends : \A j2 \in ends : j <= j2
    IN  SubSeq(rest, 1, keep)

-----------------------------------------------------------------------------
(* Literals of the two programs.                                           *)

sAA     == <<"A","A">>
sAAR    == <<"A","A","R">>
sLA     == <<"L","A">>
sAO     == <<"A","O">>
sDO     == <<"D","O">>
sREAL   == <<"R","E","A","L">>
sBOOL   == <<"B","O","O","L">>
sLIT    == <<"L","I","T">>
sH_H    == <<"H","_","H">>
sL_L    == <<"L","_","L">>
s_H_H   == <<"_","H","_","H">>
s_SP    == <<"_","S","P">>
s_SPAN  == <<"_","S","P","A","N">>
s_RESET == <<"_","R","E","S","E","T">>
s_CMD   == <<"_","C","M","D">>
s_WD    == <<"_","W","D">>
s_MANUAL == <<"_","M","A","N","U","A","L">>
s_OUT   == <<"_","O","U","T">>
s_PULSO == <<"_","P","U","L","S","O">>

-----------------------------------------------------------------------------
(* The extraction regex  SIG=@GV\.([\w\d_]+)\s+TYPE=([A-Z]+)               *)
(* The classes \w, \s and [A-Z] are pairwise disjoint from the character    *)
(* that must follow each greedy run, so the only run that can lead to a    *)
(* match is the longest one; the match is unanchored, leftmost first.      *)

\* matches == nil
NoMatch == [ok |-> FALSE, varName |-> <<>>, varType |-> <<>>]

\* the regex matched with its first character at position i
reAt(s, i) ==
    LET j  == i + Len(sSIG) + Len(sGV)
        n1 == RunLen(s, j, WordChar)
        k  == j + n1
        n2 == RunLen(s, k, Space \cup {"\n"})
        m  == k + n2
        t  == m + Len(sTYPE)
        n3 == RunLen(s, t, Upper)
    IN  IF /\ LitAt(s, i, sSIG \o sGV)
           /\ n1 >= 1
           /\ n2 >= 1
           /\ LitAt(s, m, sTYPE)
           /\ n3 >= 1
        THEN [ok |-> TRUE, varName |-> SubSeq(s, j, k - 1),
              varType |-> SubSeq(s, t, t + n3 - 1)]
        ELSE NoMatch

\* re.FindStringSubmatch(line): nil (ok = FALSE) or the two submatches
FindStringSubmatch(s) ==
    LET hits == {i \in 1..Len(s) : reAt(s, i).ok}
    IN  IF hits = {}
        THEN NoMatch
        ELSE reAt(s, CHOOSE i \in hits : \A i2 \in hits : i <= i2)

-----------------------------------------------------------------------------
(* Classification patterns of the YAML.  A pattern is kept in parsed form: *)
(*   lit  a        the regex  a          (a literal, found anywhere)      *)
(*   seq  a, b     the regex  a.*b                                         *)
(*   end  a, b     the regex  a($|b)     (b one character)                 *)
(*   bad           a text regexp.Compile rejects, such as  LIT(            *)

pLIT_HH == [kind |-> "seq", a |-> sLIT, b |-> s_H_H]
pSP     == [kind |-> "end", a |-> s_SP, b |-> <<"_">>]
pCMD    == [kind |-> "lit", a |-> s_CMD, b |-> <<>>]
pBAD    == [kind |-> "bad", a |-> <<"L","I","T","(">>, b |-> <<>>]

\* the compiled pattern found somewhere in name
Matches(p, name) ==
    CASE p.kind = "lit" -> Contains(name, p.a)
      [] p.kind = "seq" ->
            \E i \in 1..(Len(name) + 1) :
               /\ LitAt(name, i, p.a)
               /\ \E j \in (i + Len(p.a))..(Len(name) + 1) : LitAt(name, j, p.b)
      [] p.kind = "end" ->
            \E i \in 1..(Len(name) + 1) :
               /\ LitAt(name, i, p.a)
               /\ \/ i + Len(p.a) = Len(name) + 1
                  \/ LitAt(name, i + Len(p.a), p.b)
      [] OTHER -> FALSE

\* regexp.MatchString(p, name): (false, err) when p does not compile
MatchString(p, name) ==
    IF p.kind = "bad"
    THEN [matched |-> FALSE, err |-> TRUE]
    ELSE [matched |-> Matches(p, name), err |-> FALSE]

\* isMatchRegex from pattern k on; evals counts the calls of MatchString
RECURSIVE isMatchFrom(_, _, _)
isMatchFrom(name, patterns, k) ==
    IF k > Len(patterns)
    THEN [matched |-> FALSE, evals |-> 0]
    ELSE LET r == MatchString(patterns[k], name)
         IN  IF r.matched
             THEN [matched |-> TRUE, evals |-> 1]
             ELSE LET rest == isMatchFrom(name, patterns, k + 1)
                  IN  [matched |-> rest.matched, evals |-> 1 + rest.evals]

\* mutant: the scan of the list ends at the first pattern that fails to compile
isMatchRegex_StopAtInvalid(name, patterns) ==
    LET bad   == {k \in 1..Len(patterns) : MatchString(patterns[k], name).err}
        upto  == IF bad = {} THEN Len(patterns)
                 ELSE (CHOOSE k \in bad : \A k2 \in bad : k <= k2) - 1
    IN  isMatchFrom(name, SubSeq(patterns, 1, upto), 1)

isMatchRegex(name, patterns) == isMatchFrom(name, patterns, 1)

-----------------------------------------------------------------------------
(* Entries of the four lists.                                              *)

\* fullName := "@GV." + varName
fullName(varName) == sGV \o varName

\* fmt.Sprintf("%s(%s)", spare, varName)
SpareFor(spare, varName) == <<spare, "(">> \o varName \o <<")">>

\* what one loop iteration appends to each list (nothing: <<>>)
Nothing == [AI |-> <<>>, AO |-> <<>>, DI |-> <<>>, DO |-> <<>>, evals |-> 0]

\* mutant: the analog test also takes the explicit output tag
IsAnalog32_Loose(varType) ==
    Contains(varType, <<"A">>) \/ Contains(varType, sREAL)

\* v3.2: strings.Contains(varType, "AA") || strings.Contains(varType, "REAL")
IsAnalog32(varType) == Contains(varType, sAA) \/ Contains(varType, sREAL)

\* v3.2: strings.Contains(varType, "LA") || strings.Contains(varType, "BOOL")
IsDigital32(varType) == Contains(varType, sLA) \/ Contains(varType, sBOOL)

\* v3.2, the "LOGICA ESPEJO" block of processSigFile
Mirror32(varName, varType, rules, spares) ==
    IF IsAnalog32(varType)
    THEN LET r == isMatchRegex(varName, rules.AnalogRegex)
         IN  IF r.matched
             THEN [Nothing EXCEPT !.AO = <<fullName(varName)>>,
                                  !.AI = <<SpareFor(spares.AI, varName)>>,
                                  !.evals = r.evals]
             ELSE [Nothing EXCEPT !.AI = <<fullName(varName)>>,
                                  !.AO = <<SpareFor(spares.AO, varName)>>,
                                  !.evals = r.evals]
    ELSE IF IsDigital32(varType)
    THEN LET r == isMatchRegex(varName, rules.DigitalRegex)
         IN  IF r.matched
             THEN [Nothing EXCEPT !.DO = <<fullName(varName)>>,
                                  !.DI = <<SpareFor(spares.DI, varName)>>,
                                  !.evals = r.evals]
             ELSE [Nothing EXCEPT !.DI = <<fullName(varName)>>,
                                  !.DO = <<SpareFor(spares.DO, varName)>>,
                                  !.evals = r.evals]
    ELSE IF varType = sAO
    THEN [Nothing EXCEPT !.AO = <<fullName(varName)>>,
                         !.AI = <<SpareFor(spares.AI, varName)>>]
    ELSE IF varType = sDO
    THEN [Nothing EXCEPT !.DO = <<fullName(varName)>>,
                         !.DI = <<SpareFor(spares.DI, varName)>>]
    ELSE Nothing

\* v2.2: isOutput of the analog branch
IsAnalogOutput22(varName) ==
    LET isLIT  == Contains(varName, sLIT)
        isHiHi == Contains(varName, sH_H)
        isLoLo == Contains(varName, sL_L)
        isSP   == Contains(varName, s_SP)
        isSPAN == Contains(varName, s_SPAN)
    IN  (isLIT /\ isHiHi) \/ (isLIT /\ isLoLo) \/ (isSP /\ ~isSPAN)

\* v2.2: isCmd of the digital branch
IsCmd22(varName) ==
    \/ Contains(varName, s_RESET)
    \/ Contains(varName, s_CMD)
    \/ Contains(varName, s_WD)
    \/ Contains(varName, s_MANUAL)
    \/ Contains(varName, s_OUT)
    \/ Contains(varName, s_PULSO)

\* mutant: an analog input is appended without the spare of ListAO
Mirror22_NoSpare(varName, varType, spares) ==
    IF varType = sAAR \/ varType = sAA
    THEN IF IsAnalogOutput22(varName)
         THEN [Nothing EXCEPT !.AO = <<fullName(varName)>>,
                              !.AI = <<fullName(varName)>>]
         ELSE [Nothing EXCEPT !.AI = <<fullName(varName)>>]
    ELSE IF varType = sLA
    THEN IF IsCmd22(varName)
         THEN [Nothing EXCEPT !.DO = <<fullName(varName)>>,
                              !.DI = <<<<spares.DI>>>>]
         ELSE [Nothing EXCEPT !.DI = <<fullName(varName)>>,
                              !.DO = <<<<spares.DO>>>>]
    ELSE IF varType = sAO
    THEN [Nothing EXCEPT !.AO = <<fullName(varName)>>,
                         !.AI = <<<<spares.AI>>>>]
    ELSE IF varType = sDO
    THEN [Nothing EXCEPT !.DO = <<fullName(varName)>>,
                         !.DI = <<<<spares.DI>>>>]
    ELSE Nothing

\* v2.2, the "LOGICA ESPEJO" block of processSigFile
Mirror22(varName, varType, spares) ==
    IF varType = sAAR \/ varType = sAA
    THEN IF IsAnalogOutput22(varName)
         THEN [Nothing EXCEPT !.AO = <<fullName(varName)>>,
                              !.AI = <<fullName(varName)>>]
         ELSE [Nothing EXCEPT !.AI = <<fullName(varName)>>,
                              !.AO = <<<<spares.AO>>>>]
    ELSE IF varType = sLA
    THEN IF IsCmd22(varName)
         THEN [Nothing EXCEPT !.DO = <<fullName(varName)>>,
                              !.DI = <<<<spares.DI>>>>]
         ELSE [Nothing EXCEPT !.DI = <<fullName(varName)>>,
                              !.DO = <<<<spares.DO>>>>]
    ELSE IF varType = sAO
    THEN [Nothing EXCEPT !.AO = <<fullName(varName)>>,
                         !.AI = <<<<spares.AI>>>>]
    ELSE IF varType = sDO
    THEN [Nothing EXCEPT !.DO = <<fullName(varName)>>,
                         !.DI = <<<<spares.DI>>>>]
    ELSE Nothing

\* the appends of one matched declaration, by program version
Mirror(v, varName, varType, c) ==
    IF v = "v32"
    THEN Mirror32(varName, varType, c.Classification, c.Spares)
    ELSE Mirror22(varName, varType, c.Spares)

\* mutant: the test of the SIG= prefix is left to the (unanchored) regex
LoopBody_NoPrefix(v, c, text) ==
    LET ln == TrimSpace(text)
        m  == FindStringSubmatch(ln)
    IN  [line |-> ln, matches |-> m,
         add |-> IF m.ok THEN Mirror(v, m.varName, m.varType, c) ELSE Nothing]

\* one iteration of the scanner loop on the raw text of a line
LoopBody(v, c, text) ==
    LET ln == TrimSpace(text)
    IN  IF ~HasPrefix(ln, sSIG)
        THEN [line |-> ln, matches |-> NoMatch, add |-> Nothing]
        ELSE LET m == FindStringSubmatch(ln)
             IN  [line |-> ln, matches |-> m,
                  add |-> IF m.ok THEN Mirror(v, m.varName, m.varType, c)
                                  ELSE Nothing]

-----------------------------------------------------------------------------
(* The writer.                                                             *)

\* fmt.Fprintf(w, "*LIST %s   '%s'\n", code, title)
Header(code, title) == <<"*LIST ", code, "   '", title, "'">>

\* mutant: the blank line that ends a section is left out
write_NoBlank(code, title, items) == <<Header(code, title)>> \o items

\* the closure write(code, title, items) of generateListsFile
write(code, title, items) == <<Header(code, title)>> \o items \o << <<>> >>

\* v3.2: the four calls of write
Sections32(ai, ao, di, do) ==
    write("32761", "ENTRADAS ANALOGICAS DNP", ai)
    \o write("32762", "SALIDAS ANALOGICAS DNP", ao)
    \o write("32763", "ENTRADAS DIGITALES DNP", di)
    \o write("32764", "SALIDAS DIGITALES DNP", do)

\* v2.2: the four calls of write
Sections22(ai, ao, di, do) ==
    write("32764", "SALIDAS DIGITALES DNP", do)
    \o write("32763", "ENTRADAS DIGITALES DNP", di)
    \o write("32762", "SALIDAS ANALOGICAS DNP", ao)
    \o write("32761", "ENTRADAS ANALOGICAS DNP", ai)

Sections(v, ai, ao, di, do) ==
    IF v = "v32" THEN Sections32(ai, ao, di, do) ELSE Sections22(ai, ao, di, do)

-----------------------------------------------------------------------------
(* Inputs: lines a .SIG file may hold, and config.yaml contents.           *)

\* SIG=@GV.FT041_H_H TYPE=AA
lnFT041 ==
    <<"S","I","G","=","@","G","V",".","F","T","0","4","1","_","H","_","H"," ","T","Y","P","E","=","A","A">>
\* SIG=@GV.LIT1_H_H TYPE=AA
lnLIT1 ==
    <<"S","I","G","=","@","G","V",".","L","I","T","1","_","H","_","H"," ","T","Y","P","E","=","A","A">>
\* SIG=@GV.Q_SP TYPE=AAR
lnQSP ==
    <<"S","I","G","=","@","G","V",".","Q","_","S","P"," ","T","Y","P","E","=","A","A","R">>
\*   SIG=@GV.Q_SPAN   TYPE=AA<TAB>
lnSPAN ==
    <<" "," ","S","I","G","=","@","G","V",".","Q","_","S","P","A","N"," "," "," ","T","Y","P","E","=","A","A","\t">>
\* SIG=@GV.T1 TYPE=REAL
lnT1 ==
    <<"S","I","G","=","@","G","V",".","T","1"," ","T","Y","P","E","=","R","E","A","L">>
\* SIG=@GV.V1_CMD TYPE=LA
lnCMD ==
    <<"S","I","G","=","@","G","V",".","V","1","_","C","M","D"," ","T","Y","P","E","=","L","A">>
\* SIG=@GV.V1 TYPE=LAx
lnV1 ==
    <<"S","I","G","=","@","G","V",".","V","1"," ","T","Y","P","E","=","L","A","x">>
\* SIG=@GV.PUMP2 TYPE=AO
lnPUMP2 ==
    <<"S","I","G","=","@","G","V",".","P","U","M","P","2"," ","T","Y","P","E","=","A","O">>
\* SIG=@GV.M1_CMD TYPE=DO
lnM1 ==
    <<"S","I","G","=","@","G","V",".","M","1","_","C","M","D"," ","T","Y","P","E","=","D","O">>
\* NOTES=random text
lnNOTES ==
    <<"N","O","T","E","S","=","r","a","n","d","o","m"," ","t","e","x","t">>
\* SIG=@GV.X1 TYPE=XYZ
lnXYZ ==
    <<"S","I","G","=","@","G","V",".","X","1"," ","T","Y","P","E","=","X","Y","Z">>
\* SIG=@XX.Y1 TYPE=AA
lnNoGV ==
    <<"S","I","G","=","@","X","X",".","Y","1"," ","T","Y","P","E","=","A","A">>

\* NOTE SIG=@GV.Z1 TYPE=AA
lnNOTE ==
    <<"N","O","T","E"," ","S","I","G","=","@","G","V",".","Z","1"," ","T","Y","P","E","=","A","A">>

Lines == {lnFT041, lnLIT1, lnQSP, lnSPAN, lnT1, lnCMD, lnV1, lnPUMP2, lnM1,
          lnNOTES, lnXYZ, lnNoGV, lnNOTE}

\* app.spares of config.yaml
SpareNames == [AI |-> "SPARE_AI", AO |-> "SPARE_AO",
               DI |-> "SPARE_DI", DO |-> "SPARE_DO"]

\* app.classification of config.yaml
RuleSets ==
    { [AnalogRegex |-> <<>>,              DigitalRegex |-> <<>>],
      [AnalogRegex |-> <<pLIT_HH, pSP>>,  DigitalRegex |-> <<pCMD>>],
      [AnalogRegex |-> <<pBAD, pLIT_HH>>, DigitalRegex |-> <<pBAD, pCMD>>],
      [AnalogRegex |-> <<pSP, pBAD>>,     DigitalRegex |-> <<pBAD>>] }

ConfigFiles == [Classification : RuleSets, Spares : {SpareNames}]

\* the zero value of Config
ZeroConfig ==
    [Classification |-> [AnalogRegex |-> <<>>, DigitalRegex |-> <<>>],
     Spares |-> [AI |-> "", AO |-> "", DI |-> "", DO |-> ""]]

\* yaml.NewDecoder(f).Decode(&GlobalConfig): the Config struct of v2.2 has no
\* classification field, so the decoder leaves that key of the file aside
Decode(v, yaml) ==
    IF v = "v32" THEN yaml
    ELSE [ZeroConfig EXCEPT !.Spares = yaml.Spares]

-----------------------------------------------------------------------------
(* The program.                                                            *)

Init ==
    /\ version \in Versions
    /\ configYaml \in ConfigFiles
    /\ GlobalConfig = ZeroConfig
    /\ pc = "start"
    /\ input = <<>>
    /\ line = <<>>
    /\ matches = NoMatch
    /\ evals = 0
    /\ ListAI = <<>> /\ ListAO = <<>> /\ ListDI = <<>> /\ ListDO = <<>>
    /\ log = <<>>
    /\ out = <<>>

\* log.Fatalf: the event is written and the process exits
Fatal(event) ==
    /\ log' = Append(log, event)
    /\ pc' = "fatal"

\* loadConfiguration, config.yaml found and well formed
loadConfiguration ==
    /\ pc = "start"
    /\ GlobalConfig' = Decode(version, configYaml)
    /\ pc' = "loaded"
    /\ UNCHANGED <<version, configYaml, input, line, matches, evals,
                   ListAI, ListAO, ListDI, ListDO, log, out>>

\* loadConfiguration, config.yaml missing, unreadable or malformed
loadConfigurationFails ==
    /\ pc = "start"
    /\ Fatal("FATAL config")
    /\ UNCHANGED <<version, configYaml, GlobalConfig, input, line, matches, evals,
                   ListAI, ListAO, ListDI, ListDO, out>>

\* main up to the call of processSigFile, and processSigFile up to its loop.
\* v2.2 warns when __vardef.ini is missing; os.Open of the .SIG file may fail.
OpenSigFile ==
    /\ pc = "loaded"
    /\ \E vardef \in BOOLEAN, opened \in BOOLEAN :
          /\ version = "v32" => vardef
          /\ LET warned == IF version = "v22" /\ ~vardef
                           THEN Append(log, "WARN vardef") ELSE log
                 started == Append(warned, "Procesando")
             IN  IF opened
                 THEN /\ log' = started
                      /\ pc' = "scan"
                 ELSE /\ log' = Append(started, "FATAL procesando")
                      /\ pc' = "fatal"
    /\ ListAO' = <<>> /\ ListAI' = <<>> /\ ListDO' = <<>> /\ ListDI' = <<>>
    /\ UNCHANGED <<version, configYaml, GlobalConfig, input, line, matches,
                   evals, out>>

\* mutant: a new entry is put at the head of its list
ProcessLine_Prepend(text) ==
    /\ pc = "scan"
    /\ Len(input) < MaxLines
    /\ LET r == LoopBody(version, GlobalConfig, text)
       IN  /\ line' = r.line
           /\ matches' = r.matches
           /\ evals' = r.add.evals
           /\ ListAI' = r.add.AI \o ListAI
           /\ ListAO' = r.add.AO \o ListAO
           /\ ListDI' = r.add.DI \o ListDI
           /\ ListDO' = r.add.DO \o ListDO
    /\ input' = Append(input, text)
    /\ UNCHANGED <<version, configYaml, GlobalConfig, pc, log, out>>

\* one iteration of  for scanner.Scan() { ... }
ProcessLine(text) ==
    /\ pc = "scan"
    /\ Len(input) < MaxLines
    /\ LET r == LoopBody(version, GlobalConfig, text)
       IN  /\ line' = r.line
           /\ matches' = r.matches
           /\ evals' = r.add.evals
           /\ ListAI' = ListAI \o r.add.AI
           /\ ListAO' = ListAO \o r.add.AO
           /\ ListDI' = ListDI \o r.add.DI
           /\ ListDO' = ListDO \o r.add.DO
    /\ input' = Append(input, text)
    /\ UNCHANGED <<version, configYaml, GlobalConfig, pc, log, out>>

\* scanner.Scan() returns false at the end of the file; scanner.Err() is nil
ScanEOF ==
    /\ pc = "scan"
    /\ pc' = "scanned"
    /\ UNCHANGED <<version, configYaml, GlobalConfig, input, line, matches, evals,
                   ListAI, ListAO, ListDI, ListDO, log, out>>

\* scanner.Scan() returns false on a read error; processSigFile returns it
ScanError ==
    /\ pc = "scan"
    /\ Fatal("FATAL procesando")
    /\ UNCHANGED <<version, configYaml, GlobalConfig, input, line, matches, evals,
                   ListAI, ListAO, ListDI, ListDO, out>>

\* generateListsFile, and the end of main
generateListsFile ==
    /\ pc = "scanned"
    /\ out' = Sections(version, ListAI, ListAO, ListDI, ListDO)
    /\ log' = IF version = "v22"
              THEN log \o <<"Generando", "Exito">>
              ELSE Append(log, "Generando")
    /\ pc' = "done"
    /\ UNCHANGED <<version, configYaml, GlobalConfig, input, line, matches, evals,
                   ListAI, ListAO, ListDI, ListDO>>

\* generateListsFile, os.Create or the flush fails
generateListsFileFails ==
    /\ pc = "scanned"
    /\ log' = log \o <<"Generando", "FATAL escribiendo">>
    /\ pc' = "fatal"
    /\ UNCHANGED <<version, configYaml, GlobalConfig, input, line, matches, evals,
                   ListAI, ListAO, ListDI, ListDO, out>>

Next ==
    \/ loadConfiguration
    \/ loadConfigurationFails
    \/ OpenSigFile
    \/ \E text \in Lines : ProcessLine(text)
    \/ ScanEOF
    \/ ScanError
    \/ generateListsFile
    \/ generateListsFileFails

Spec == Init /\ [][Next]_vars

\* the v3.2 program alone (src/unnamed/part_000)
Init32 == Init /\ version = "v32"

Spec32 == Init32 /\ [][Next]_vars

-----------------------------------------------------------------------------
(* Vocabulary of the properties.                                           *)

Last(s) == s[Len(s)]

\* a step of the scanner loop has just consumed a line
Stepped == input' # input

\* s is a prefix of t
IsPrefix(s, t) == Len(s) <= Len(t) /\ SubSeq(t, 1, Len(s)) = s

\* e is a real reference @GV.<name>
IsRealRef(e) ==
    /\ Len(e) > Len(sGV)
    /\ SubSeq(e, 1, Len(sGV)) = sGV
    /\ \A k \in (Len(sGV) + 1)..Len(e) : e[k] \in WordChar

\* the bare name of a real reference
NameOf(e) == SubSeq(e, Len(sGV) + 1, Len(e))

\* e is the bare spare / the spare annotated with the point's name
IsBareSpare(e, spare) == e = <<spare>>
IsNotedSpare(e, spare, name) == e = <<spare>> \o <<"(">> \o name \o <<")">>
IsSpare(e, spare, name) == IsBareSpare(e, spare) \/ IsNotedSpare(e, spare, name)

\* type tags by family, as the v3.2 dispatch reads them
AnalogTag(t)  == Contains(t, sAA) \/ Contains(t, sREAL)
DigitalTag(t) == ~AnalogTag(t) /\ (Contains(t, sLA) \/ Contains(t, sBOOL))
NoFamilyTag(t) == ~AnalogTag(t) /\ ~DigitalTag(t) /\ t # sAO /\ t # sDO

\* type tags both programs route to a family
CommonTags == {sAA, sAAR, sLA, sAO, sDO}

\* some pattern of the list compiles and matches the name
SomeValidMatch(name, patterns) ==
    \E k \in 1..Len(patterns) :
        patterns[k].kind # "bad" /\ Matches(patterns[k], name)

HasInvalid(patterns) == \E k \in 1..Len(patterns) : patterns[k].kind = "bad"

\* new is old with exactly one entry appended
AppendedOne(old, new) == Len(new) = Len(old) + 1 /\ IsPrefix(old, new)

\* the declaration a raw line holds, read as section 4.1 of the design says
DeclOf(text) ==
    IF HasPrefix(TrimSpace(text), sSIG)
    THEN FindStringSubmatch(TrimSpace(text))
    ELSE NoMatch

\* a is a subsequence of b (same relative order)
RECURSIVE IsSubseq(_, _)
IsSubseq(a, b) ==
    IF a = <<>> THEN TRUE
    ELSE IF b = <<>> THEN FALSE
    ELSE IF Head(a) = Head(b) THEN IsSubseq(Tail(a), Tail(b))
    ELSE IsSubseq(a, Tail(b))

\* the references declared by the lines read so far, in input order
RECURSIVE DeclaredRefs(_)
DeclaredRefs(texts) ==
    IF texts = <<>> THEN <<>>
    ELSE LET d == DeclOf(Head(texts))
         IN  (IF d.ok THEN <<sGV \o d.varName>> ELSE <<>>) \o DeclaredRefs(Tail(texts))

RealEntries(L) == SelectSeq(L, IsRealRef)

-----------------------------------------------------------------------------
(* C1  Mirror invariant: in every state during and after processSigFile    *)
(* len(ListAI) = len(ListAO) and len(ListDI) = len(ListDO), and a loop     *)
(* iteration that appends at all appends exactly one entry to each of the  *)
(* two lists of one family and nothing to the other family.                *)
C1_MirrorInvariant ==
    /\ Len(ListAI) = Len(ListAO) /\ Len(ListDI) = Len(ListDO)
    /\ [][ /\ Len(ListAI') = Len(ListAO')
           /\ Len(ListDI') = Len(ListDO')
           /\ (Stepped /\ lists' # lists) =>
                 \/ /\ AppendedOne(ListAI, ListAI') /\ AppendedOne(ListAO, ListAO')
                    /\ ListDI' = ListDI /\ ListDO' = ListDO
                 \/ /\ AppendedOne(ListDI, ListDI') /\ AppendedOne(ListDO, ListDO')
                    /\ ListAI' = ListAI /\ ListAO' = ListAO ]_vars

\* both families have appended
C1_Witness ==
    /\ pc = "scan"
    /\ Len(ListAI) = 1 /\ Len(ListAO) = 1
    /\ Len(ListDI) = 1 /\ Len(ListDO) = 1

(* C3  Order preservation: the real entries of each list are a subsequence *)
(* of the references declared by the input lines, in input order; during   *)
(* the pass a list only grows, by one entry at its end, and a real entry   *)
(* appended is the reference of the line just read; a declaration with a   *)
(* tag both programs know always appends its reference, also when the same *)
(* line was read before; after the pass no list changes.                   *)
C3_OrderPreserved ==
    /\ [](\A i \in 1..4 : IsSubseq(RealEntries(lists[i]), DeclaredRefs(input)))
    /\ [][ /\ pc = "scan" =>
                \A i \in 1..4 :
                   /\ IsPrefix(lists[i], lists'[i])
                   /\ Len(lists'[i]) <= Len(lists[i]) + 1
                   /\ lists'[i] # lists[i] =>
                         /\ Stepped
                         /\ IsRealRef(Last(lists'[i])) =>
                               Last(lists'[i]) = sGV \o matches'.varName
           /\ pc \in {"scanned", "done", "fatal"} => lists' = lists
           /\ (Stepped /\ matches'.ok /\ matches'.varType \in CommonTags) =>
                \E i \in 1..4 :
                   lists'[i] = Append(lists[i], sGV \o matches'.varName) ]_vars

\* two different real references in one list, in the order of their lines
C3_Witness ==
    /\ Len(input) = 2
    /\ Len(ListAI) = 2
    /\ IsRealRef(ListAI[1]) /\ IsRealRef(ListAI[2])
    /\ ListAI[1] # ListAI[2]
    /\ ListAI[1] = sGV \o DeclOf(input[1]).varName
    /\ ListAI[2] = sGV \o DeclOf(input[2]).varName

(* C5  Explicit output tags bypass the patterns: a declaration of tag AO   *)
(* appends its reference to ListAO and a spare to ListAI, one of tag DO    *)
(* its reference to ListDO and a spare to ListDI, whatever the pattern     *)
(* lists hold, and no pattern is evaluated for it.                         *)
C5_ExplicitOutput ==
    [][ (Stepped /\ matches'.ok) =>
          LET name == matches'.varName
              tag  == matches'.varType
          IN  /\ tag = sAO =>
                   /\ ListAO' = Append(ListAO, sGV \o name)
                   /\ AppendedOne(ListAI, ListAI')
                   /\ IsSpare(Last(ListAI'), GlobalConfig.Spares.AI, name)
                   /\ ListDI' = ListDI /\ ListDO' = ListDO
                   /\ evals' = 0
              /\ tag = sDO =>
                   /\ ListDO' = Append(ListDO, sGV \o name)
                   /\ AppendedOne(ListDI, ListDI')
                   /\ IsSpare(Last(ListDI'), GlobalConfig.Spares.DI, name)
                   /\ ListAI' = ListAI /\ ListAO' = ListAO
                   /\ evals' = 0 ]_vars

\* a DO point whose name a configured digital pattern matches
C5_Witness ==
    /\ input # <<>>
    /\ matches.ok /\ matches.varType = sDO
    /\ SomeValidMatch(matches.varName, configYaml.Classification.DigitalRegex)
    /\ ListDO # <<>> /\ Last(ListDO) = sGV \o matches.varName
    /\ evals = 0

(* C10  Skipped lines change nothing: a line that does not begin with SIG=  *)
(* after trimming, a SIG= line the extraction pattern does not match, or a  *)
(* declaration whose tag belongs to no family leaves the four lists as      *)
(* they were, raises no error, and the pass goes on.                        *)
C10_SkippedLines ==
    [][ Stepped =>
          LET text == Last(input')
          IN  ( \/ ~HasPrefix(TrimSpace(text), sSIG)
                \/ ~matches'.ok
                \/ NoFamilyTag(matches'.varType) ) =>
                   /\ lists' = lists
                   /\ pc' = "scan"
                   /\ log' = log ]_vars

\* a declaration of an unknown tag was skipped after a point was appended
C10_Witness ==
    /\ Len(input) = 2
    /\ pc = "scan"
    /\ matches.ok /\ NoFamilyTag(matches.varType)
    /\ Len(ListAI) = 1

(* C6  An invalid pattern is a non-match and does not stop the evaluation:  *)
(* in the v3.2 program a point of a dual-capable tag is an output exactly   *)
(* when some pattern of its family's list that compiles matches its name,   *)
(* wherever the invalid patterns stand in the list; isMatchRegex answers as *)
(* on the list without its invalid patterns; the iteration raises no error  *)
(* and the pass goes on.                                                    *)
C6_InvalidPatternNonMatch ==
    [][ (Stepped /\ matches'.ok) =>
          LET name  == matches'.varName
              tag   == matches'.varType
              rules == GlobalConfig.Classification
              valid(p) == p.kind # "bad"
          IN  /\ AnalogTag(tag) =>
                   /\ isMatchRegex(name, rules.AnalogRegex).matched
                        = isMatchRegex(name, SelectSeq(rules.AnalogRegex, valid)).matched
                   /\ IF SomeValidMatch(name, rules.AnalogRegex)
                      THEN /\ ListAO' = Append(ListAO, sGV \o name)
                           /\ AppendedOne(ListAI, ListAI')
                           /\ IsSpare(Last(ListAI'), GlobalConfig.Spares.AI, name)
                      ELSE /\ ListAI' = Append(ListAI, sGV \o name)
                           /\ AppendedOne(ListAO, ListAO')
                           /\ IsSpare(Last(ListAO'), GlobalConfig.Spares.AO, name)
              /\ DigitalTag(tag) =>
                   /\ isMatchRegex(name, rules.DigitalRegex).matched
                        = isMatchRegex(name, SelectSeq(rules.DigitalRegex, valid)).matched
                   /\ IF SomeValidMatch(name, rules.DigitalRegex)
                      THEN /\ ListDO' = Append(ListDO, sGV \o name)
                           /\ AppendedOne(ListDI, ListDI')
                           /\ IsSpare(Last(ListDI'), GlobalConfig.Spares.DI, name)
                      ELSE /\ ListDI' = Append(ListDI, sGV \o name)
                           /\ AppendedOne(ListDO, ListDO')
                           /\ IsSpare(Last(ListDO'), GlobalConfig.Spares.DO, name)
              /\ pc' = "scan"
              /\ log' = log ]_vars

\* an invalid pattern was evaluated first and the valid one after it matched
C6_Witness ==
    /\ version = "v32"
    /\ pc = "scan"
    /\ input # <<>>
    /\ matches.ok /\ AnalogTag(matches.varType)
    /\ Len(GlobalConfig.Classification.AnalogRegex) = 2
    /\ GlobalConfig.Classification.AnalogRegex[1].kind = "bad"
    /\ evals = 2
    /\ ListAO # <<>> /\ Last(ListAO) = sGV \o matches.varName

-----------------------------------------------------------------------------
(* C8  Output layout.                                                      *)

CodeOf(cat) ==
    CASE cat = "AI" -> "32761" [] cat = "AO" -> "32762"
      [] cat = "DI" -> "32763" [] cat = "DO" -> "32764"

TitleOf(cat) ==
    CASE cat = "AI" -> "ENTRADAS ANALOGICAS DNP"
      [] cat = "AO" -> "SALIDAS ANALOGICAS DNP"
      [] cat = "DI" -> "ENTRADAS DIGITALES DNP"
      [] cat = "DO" -> "SALIDAS DIGITALES DNP"

EntriesOf(cat) ==
    CASE cat = "AI" -> ListAI [] cat = "AO" -> ListAO
      [] cat = "DI" -> ListDI [] cat = "DO" -> ListDO

\* one header line, the entries in list order, one blank line
SectionOf(cat) ==
    << <<"*LIST ", CodeOf(cat), "   '", TitleOf(cat), "'">> >>
       \o EntriesOf(cat) \o << <<>> >>

LayoutIn(order) ==
    SectionOf(order[1]) \o SectionOf(order[2])
       \o SectionOf(order[3]) \o SectionOf(order[4])

(* C8 as claimed: the file written is the four sections in the order      *)
(* analog inputs, analog outputs, digital inputs, digital outputs.        *)
C8_LayoutAsClaimed ==
    pc = "done" => out = LayoutIn(<<"AI", "AO", "DI", "DO">>)

(* C8 as amended: the file written is four sections, one per category,    *)
(* each a header line of the category's fixed code and title, the entries *)
(* of its list in list order and one blank line; the order of the         *)
(* sections is fixed per program: AI, AO, DI, DO in v3.2 and              *)
(* DO, DI, AO, AI in v2.2.  Nothing is written before.                    *)
C8_OutputLayout ==
    /\ pc = "done" =>
          out = LayoutIn(IF version = "v32" THEN <<"AI", "AO", "DI", "DO">>
                                            ELSE <<"DO", "DI", "AO", "AI">>)
    /\ pc # "done" => out = <<>>

\* the v2.2 program wrote a file with entries in both families
C8_Witness ==
    /\ pc = "done"
    /\ version = "v22"
    /\ ListAI # <<>> /\ ListDO # <<>>
    /\ out # <<>>

-----------------------------------------------------------------------------
(* Claims the code contradicts.                                            *)

(* C2  Coverage, for the type tags both programs route to a family: a     *)
(* matching SIG= line appends its real reference to exactly one of the    *)
(* four lists and a spare, not a real reference, to the paired list of    *)
(* the same family; the other family is untouched.                        *)
C2_Coverage ==
    [][ (Stepped /\ matches'.ok /\ matches'.varType \in CommonTags) =>
          LET ref == sGV \o matches'.varName
              RealAndSpare(r, rNew, m, mNew) ==
                  /\ rNew = Append(r, ref)
                  /\ AppendedOne(m, mNew)
                  /\ ~IsRealRef(Last(mNew))
          IN  \/ /\ RealAndSpare(ListAI, ListAI', ListAO, ListAO')
                 /\ ListDI' = ListDI /\ ListDO' = ListDO
              \/ /\ RealAndSpare(ListAO, ListAO', ListAI, ListAI')
                 /\ ListDI' = ListDI /\ ListDO' = ListDO
              \/ /\ RealAndSpare(ListDI, ListDI', ListDO, ListDO')
                 /\ ListAI' = ListAI /\ ListAO' = ListAO
              \/ /\ RealAndSpare(ListDO, ListDO', ListDI, ListDI')
                 /\ ListAI' = ListAI /\ ListAO' = ListAO ]_vars

(* C4  Pattern-governed direction: a point of a dual-capable tag is        *)
(* appended as an output exactly when some pattern of its family's list    *)
(* in config.yaml matches its bare name.                                   *)
C4_PatternGoverned ==
    [][ (Stepped /\ matches'.ok) =>
          LET name  == matches'.varName
              tag   == matches'.varType
              rules == configYaml.Classification
          IN  /\ AnalogTag(tag) =>
                   ( ListAO' = Append(ListAO, sGV \o name)
                       <=> SomeValidMatch(name, rules.AnalogRegex) )
              /\ DigitalTag(tag) =>
                   ( ListDO' = Append(ListDO, sGV \o name)
                       <=> SomeValidMatch(name, rules.DigitalRegex) ) ]_vars

\* events of warning level
WarnEvents == {"WARN vardef", "WARN pattern"}

(* C7  An invalid pattern is reported: a run that ends with a pattern in   *)
(* its configuration that does not compile has logged a warning.           *)
C7_InvalidPatternWarned ==
    ( /\ pc = "done"
      /\ \/ HasInvalid(GlobalConfig.Classification.AnalogRegex)
         \/ HasInvalid(GlobalConfig.Classification.DigitalRegex) )
       => \E i \in 1..Len(log) : log[i] \in WarnEvents

(* C9  Mirror pairing by index: at every index exactly one of the two      *)
(* entries of a pair of lists is a real reference and the other is the     *)
(* spare placeholder of that point; the placeholders of a run are all bare *)
(* or all annotated.                                                       *)
C9_MirrorPairing ==
    LET sp == GlobalConfig.Spares
        Paired(x, y, spareX, spareY) ==
            \/ IsRealRef(x) /\ ~IsRealRef(y) /\ IsSpare(y, spareY, NameOf(x))
            \/ IsRealRef(y) /\ ~IsRealRef(x) /\ IsSpare(x, spareX, NameOf(y))
        all == ListAI \o ListAO \o ListDI \o ListDO
        mirrors == {k \in 1..Len(all) : ~IsRealRef(all[k])}
    IN  /\ Len(ListAI) = Len(ListAO)
        /\ Len(ListDI) = Len(ListDO)
        /\ \A i \in 1..Len(ListAI) : Paired(ListAI[i], ListAO[i], sp.AI, sp.AO)
        /\ \A i \in 1..Len(ListDI) : Paired(ListDI[i], ListDO[i], sp.DI, sp.DO)
        /\ \/ \A k \in mirrors : Len(all[k]) = 1
           \/ \A k \in mirrors : Len(all[k]) > 1

====
